---------------------------- MODULE Spec2Model ----------------------------
(***************************************************************************)
(* ciboard: the artifacts search slice (src/src/slices/artifactsSlice.ts)  *)
(* with its two-stage loader actLoad, and the tagging-history merge of     *)
(* HistoryList (src/src/components/ArtifactDetailedInfo.tsx).              *)
(*                                                                         *)
(* JavaScript values of different types are kept apart by records with     *)
(* different field names: [undef |-> TRUE] is undefined, [str |-> s] a     *)
(* string, [num |-> n] a number, [message |-> m] an Error instance.        *)
(***************************************************************************)
EXTENDS Integers, Sequences, FiniteSets

(* ------------------------------ bounds -------------------------------- *)

\* Number of actLoad invocations a behaviour may start.
MaxInvocations == 2
\* Longest hit list a query response carries.
MaxHits == 2
\* The non-zero hits_info.total.value a query response may carry.
MaxTotal == 10
\* Longest tagging history handed to HistoryList.
MaxRecords == 2
\* Largest page of the current query.
MaxPage == 2

(* --------------------------- JavaScript values ------------------------ *)

Undefined == [undef |-> TRUE]

Str(s) == [str |-> s]

Num(n) == [num |-> n]

ErrorObj(m) == [message |-> m]

EmptyObject == [nokeys |-> TRUE]

IsString(v) == "str" \in DOMAIN v

IsNumber(v) == "num" \in DOMAIN v

\* _.isError(value)
IsError(v) == "message" \in DOMAIN v

Digit(d) == <<"0", "1", "2", "3", "4", "5", "6", "7", "8", "9">>[d + 1]

RECURSIVE DecimalString(_)
DecimalString(n) ==
    IF n < 10 THEN Digit(n) ELSE DecimalString(n \div 10) \o Digit(n % 10)

\* _.toString(value): '' for null and undefined, the string itself, the
\* decimal digits of a (non-negative) number.
toString(v) ==
    IF IsString(v) THEN v.str
    ELSE IF IsNumber(v) THEN DecimalString(v.num)
    ELSE ""

(* ------------------------------ the slice ----------------------------- *)

INITIAL_STATE ==
    [ error             |-> Undefined,
      artList           |-> <<>>,
      hits_info         |-> EmptyObject,
      isLoading         |-> FALSE,
      totalHits         |-> 0,
      isLoadingExtended |-> FALSE ]

HitsInfo(n) == [total |-> [value |-> n]]

\* action.payload.error: undefined when the payload has no such key.
PayloadError(payload) ==
    IF "error" \in DOMAIN payload THEN payload.error ELSE Undefined

\* _.get(action.payload, 'hits_info.total.value', 0)
GetTotalValue(payload) ==
    IF /\ "hits_info" \in DOMAIN payload
       /\ "total" \in DOMAIN payload.hits_info
       /\ "value" \in DOMAIN payload.hits_info.total
    THEN payload.hits_info.total.value
    ELSE 0

\* Mutant: the artList reducer leaves isLoadingExtended as it was.
actArtListKeepsExtended(state, payload) ==
    [ error             |-> PayloadError(payload),
      artList           |-> payload.hits,
      hits_info         |-> payload.hits_info,
      isLoading         |-> FALSE,
      totalHits         |-> GetTotalValue(payload),
      isLoadingExtended |-> state.isLoadingExtended ]

\* Mutant: the artList reducer keeps the previous total when the payload
\* carries none.
actArtListStaleTotal(state, payload) ==
    [ error             |-> PayloadError(payload),
      artList           |-> payload.hits,
      hits_info         |-> payload.hits_info,
      isLoading         |-> FALSE,
      totalHits         |-> IF payload.hits_info = Undefined
                            THEN state.totalHits
                            ELSE GetTotalValue(payload),
      isLoadingExtended |-> FALSE ]

\* Mutant: a publish leaves isLoading as it was.
actArtListKeepsLoading(state, payload) ==
    [ error             |-> PayloadError(payload),
      artList           |-> payload.hits,
      hits_info         |-> payload.hits_info,
      isLoading         |-> state.isLoading,
      totalHits         |-> GetTotalValue(payload),
      isLoadingExtended |-> FALSE ]

\* reducer artList
actArtList(state, payload) ==
    [ error             |-> PayloadError(payload),
      artList           |-> payload.hits,
      hits_info         |-> payload.hits_info,
      isLoading         |-> FALSE,
      totalHits         |-> GetTotalValue(payload),
      isLoadingExtended |-> FALSE ]

\* Mutant: isLoading(true) does not clear the list.
actIsLoadingKeepsList(state, isLoading) ==
    IF isLoading
    THEN [ state EXCEPT !.isLoading = isLoading,
                        !.hits_info = EmptyObject,
                        !.error = Undefined ]
    ELSE [ state EXCEPT !.isLoading = isLoading ]

\* Mutant: isLoading(true) does not clear the error.
actIsLoadingKeepsError(state, isLoading) ==
    IF isLoading
    THEN [ state EXCEPT !.isLoading = isLoading,
                        !.hits_info = EmptyObject,
                        !.artList = <<>> ]
    ELSE [ state EXCEPT !.isLoading = isLoading ]

\* Mutant: isLoading(true) resets the total with the list.
actIsLoadingResetsTotal(state, isLoading) ==
    IF isLoading
    THEN [ state EXCEPT !.isLoading = isLoading,
                        !.hits_info = EmptyObject,
                        !.artList = <<>>,
                        !.totalHits = 0,
                        !.error = Undefined ]
    ELSE [ state EXCEPT !.isLoading = isLoading ]

\* reducer isLoading
actIsLoading(state, isLoading) ==
    IF isLoading
    THEN [ state EXCEPT !.isLoading = isLoading,
                        !.hits_info = EmptyObject,
                        !.artList = <<>>,
                        !.error = Undefined ]
    ELSE [ state EXCEPT !.isLoading = isLoading ]

\* reducer isLoadingExtended
\* Mutant: isLoadingExtended(true) turns isLoading on as well.
actIsLoadingExtendedAndLoading(state, isLoadingExtended) ==
    [ state EXCEPT !.isLoadingExtended = isLoadingExtended,
                   !.isLoading = isLoadingExtended ]

actIsLoadingExtended(state, isLoadingExtended) ==
    [ state EXCEPT !.isLoadingExtended = isLoadingExtended ]

(* --------------------------- query responses -------------------------- *)

ArtifactsSearchFastQuery1 == "ArtifactsSearchFastQuery1"

ArtifactsSearchSlowQuery2 == "ArtifactsSearchSlowQuery2"

\* A hit as the backend sends it: the three fields the slice keeps and one
\* it does not.
RawHit(k, decision) ==
    [ hit_info          |-> k,
      hit_source        |-> k,
      greenwaveDecision |-> decision,
      typename          |-> "ArtifactHit" ]

\* The hit lists a response may carry: the first n hits of the result set.
RawHitLists ==
    { [k \in 1..n |-> RawHit(k, Undefined)] : n \in 0..MaxHits }

\* The hits_info a response may carry: none, a total of 0, a total above 0.
HitsInfos == { Undefined, HitsInfo(0), HitsInfo(MaxTotal) }

\* What client.query resolves with: a response with data.artifacts, or
\* (errorPolicy 'all') one with no data.
Responses ==
    { [data |-> [artifacts |-> [hits |-> h, hits_info |-> t]]] :
        h \in RawHitLists, t \in HitsInfos }
    \cup { [data |-> Undefined] }

\* What client.query rejects with.
Failures ==
    { ErrorObj("Network error"), Str("timeout"), Num(404), Undefined }

HasArtifacts(response) == "artifacts" \in DOMAIN response.data

\* The TypeError of reading response.data.artifacts off a response with no
\* data.
TypeErrorNoData ==
    ErrorObj("Cannot read properties of undefined (reading 'artifacts')")

MapHit(hit) ==
    [ hit_info          |-> hit.hit_info,
      hit_source        |-> hit.hit_source,
      greenwaveDecision |-> hit.greenwaveDecision ]

\* responseToState, for a response that has data.artifacts
responseToState(response) ==
    LET hits_ == response.data.artifacts.hits
    IN  [ hits      |-> [k \in DOMAIN hits_ |-> MapHit(hits_[k])],
          hits_info |-> response.data.artifacts.hits_info ]

\* Mutant: the second stage is never skipped.
isEmptyNever(list) == FALSE

\* _.isEmpty(value), of a list
isEmpty(list) == Len(list) = 0

(* ------------------------------- actLoad ------------------------------ *)

VARIABLES
    store,                  \* the artifacts slice of the redux state
    artifactsCurrentQuery,  \* the current-query slice read by getState()
    pc,                     \* where each invocation of actLoad stands
    queryVars,              \* each invocation's queryVars
    query,                  \* each invocation's query.query
    artList,                \* each invocation's local artList
    errorText,              \* each invocation's errorText
    error,                  \* each invocation's caught error
    inflight,               \* the client's queries not yet settled
    issued,                 \* the documents each invocation has queried
    props,                  \* HistoryList: props
    hpc,                    \* HistoryList: not mounted, given props, rendered
    lines,                  \* HistoryList: lines
    log,                    \* HistoryList: log, the sorted timeline
    items                   \* HistoryList: the rendered list items

loaderVars ==
    << store, artifactsCurrentQuery, pc, queryVars, query, artList,
       errorText, error, inflight, issued >>

historyVars == << props, hpc, lines, log, items >>

vars == << loaderVars, historyVars >>

Invocations == 1..MaxInvocations

\* The parameter bundle of the current-query slice.
CurrentQuery(page, paginationSize) ==
    [ page           |-> page,
      sortBy         |-> "_score",
      artTypes       |-> <<"brew-build">>,
      newerThen      |-> "3",
      queryString    |-> "nvr: kernel*",
      doDeepSearch   |-> FALSE,
      paginationSize |-> paginationSize ]

\* Mutant: the page is taken as 0-based after all, one page too early.
PaginationFromOnePageEarly(page, paginationSize) ==
    (page - 2) * paginationSize

PaginationFrom(page, paginationSize) == (page - 1) * paginationSize

QueryVars(q) ==
    [ sortBy         |-> q.sortBy,
      artTypes       |-> q.artTypes,
      newerThen      |-> q.newerThen,
      queryString    |-> q.queryString,
      doDeepSearch   |-> q.doDeepSearch,
      paginationSize |-> q.paginationSize,
      paginationFrom |-> PaginationFrom(q.page, q.paginationSize) ]

Request(i, doc, variables) ==
    [ invocation |-> i, query |-> doc, variables |-> variables ]

\* Mutant: every failure is coerced to a string, an Error instance too.
ErrorTextCoerced(e) ==
    IF IsError(e) THEN "Error: " \o e.message ELSE toString(e)

\* The error text of the catch block.
ErrorText(e) == IF IsError(e) THEN e.message ELSE toString(e)

\* Mutant: the error payload carries no error.
ErrorPayloadNoError(text) ==
    [ hits |-> <<>>, hits_info |-> HitsInfo(0) ]

ErrorPayload(text) ==
    [ hits |-> <<>>, hits_info |-> HitsInfo(0), error |-> Str(text) ]

\* Mutant: a failure keeps the list the slice shows.
CatchKeepsPartial(i, e) ==
    /\ error' = [error EXCEPT ![i] = e]
    /\ errorText' = [errorText EXCEPT ![i] = Str(ErrorText(e))]
    /\ artList' = [artList EXCEPT ![i] = Undefined]
    /\ store' = [ actArtList(store, ErrorPayload(ErrorText(e)))
                    EXCEPT !.artList = store.artList ]
    /\ pc' = [pc EXCEPT ![i] = "done"]

\* The invocations are numbered in the order they start.
NextInvocation(i) ==
    /\ pc[i] = "idle"
    /\ \A j \in Invocations : j < i => pc[j] # "idle"

\* actLoad up to its first await: read the current query, dispatch
\* isLoading(true), issue the fast query.
Start(i) ==
    /\ NextInvocation(i)
    /\ LET qv == QueryVars(artifactsCurrentQuery)
       IN  /\ store' = actIsLoading(store, TRUE)
           /\ queryVars' = [queryVars EXCEPT ![i] = qv]
           /\ query' = [query EXCEPT ![i] = ArtifactsSearchFastQuery1]
           /\ inflight' =
                inflight \cup {Request(i, ArtifactsSearchFastQuery1, qv)}
           /\ issued' =
                [issued EXCEPT ![i] = Append(@, ArtifactsSearchFastQuery1)]
    /\ pc' = [pc EXCEPT ![i] = "awaitFast"]
    /\ UNCHANGED << artifactsCurrentQuery, artList, errorText, error >>
    /\ UNCHANGED historyVars

\* The catch block: whatever was thrown inside the try ends the invocation
\* with the error payload.  artList is a let of the try block and is out of
\* scope here; errorText is a let of the function.
Catch(i, e) ==
    /\ error' = [error EXCEPT ![i] = e]
    /\ errorText' = [errorText EXCEPT ![i] = Str(ErrorText(e))]
    /\ artList' = [artList EXCEPT ![i] = Undefined]
    /\ store' = actArtList(store, ErrorPayload(ErrorText(e)))
    /\ pc' = [pc EXCEPT ![i] = "done"]

\* Mutant: the fast query is not awaited before the slow one is issued.
SettledNone(i) == inflight

\* The client's queries once the one invocation i awaits has settled.
Settled(i) == { r \in inflight : r.invocation # i }

Settle(i) == inflight' = Settled(i)

\* Mutant: the variables of the slow query are built anew from the store.
SlowVariablesReread(i) == QueryVars(artifactsCurrentQuery)

\* query.variables when the slow query is issued: the query object of the
\* fast query with only its document replaced.
SlowVariables(i) == queryVars[i]

\* The fast query resolves: publish it, and either stop (no hits) or
\* dispatch isLoadingExtended(true) and issue the slow query.
FastResolve(i, response) ==
    /\ pc[i] = "awaitFast"
    /\ IF ~HasArtifacts(response)
       THEN /\ Catch(i, TypeErrorNoData)
            /\ Settle(i)
            /\ UNCHANGED << query, issued >>
       ELSE LET local == responseToState(response)
                published == actArtList(store, local)
            IN  /\ artList' = [artList EXCEPT ![i] = local]
                /\ UNCHANGED << errorText, error >>
                /\ IF isEmpty(local.hits)
                   THEN /\ store' = published
                        /\ Settle(i)
                        /\ pc' = [pc EXCEPT ![i] = "done"]
                        /\ UNCHANGED << query, issued >>
                   ELSE /\ store' = actIsLoadingExtended(published, TRUE)
                        /\ query' =
                             [query EXCEPT ![i] = ArtifactsSearchSlowQuery2]
                        /\ inflight' =
                             Settled(i)
                             \cup { Request(i, ArtifactsSearchSlowQuery2,
                                            SlowVariables(i)) }
                        /\ issued' =
                             [issued EXCEPT
                                ![i] = Append(@, ArtifactsSearchSlowQuery2)]
                        /\ pc' = [pc EXCEPT ![i] = "awaitSlow"]
    /\ UNCHANGED << artifactsCurrentQuery, queryVars >>
    /\ UNCHANGED historyVars

\* The fast query rejects.
FastReject(i, e) ==
    /\ pc[i] = "awaitFast"
    /\ Catch(i, e)
    /\ Settle(i)
    /\ UNCHANGED << artifactsCurrentQuery, queryVars, query, issued >>
    /\ UNCHANGED historyVars

\* Mutant: an epoch guard drops the slow-stage publish of an invocation
\* once a later one has started.
SlowResolveGuarded(i, response) ==
    /\ pc[i] = "awaitSlow"
    /\ HasArtifacts(response)
    /\ artList' = [artList EXCEPT ![i] = responseToState(response)]
    /\ store' = IF \E j \in 1..MaxInvocations : j > i /\ pc[j] # "idle"
                THEN store
                ELSE actArtList(store, responseToState(response))
    /\ pc' = [pc EXCEPT ![i] = "done"]
    /\ inflight' = { r \in inflight : r.invocation # i }
    /\ UNCHANGED << artifactsCurrentQuery, queryVars, query, issued,
                    errorText, error, props, hpc, lines, log, items >>

\* The slow query resolves: publish it.
SlowResolve(i, response) ==
    /\ pc[i] = "awaitSlow"
    /\ IF ~HasArtifacts(response)
       THEN Catch(i, TypeErrorNoData)
       ELSE LET local == responseToState(response)
            IN  /\ artList' = [artList EXCEPT ![i] = local]
                /\ store' = actArtList(store, local)
                /\ pc' = [pc EXCEPT ![i] = "done"]
                /\ UNCHANGED << errorText, error >>
    /\ Settle(i)
    /\ UNCHANGED << artifactsCurrentQuery, queryVars, query, issued >>
    /\ UNCHANGED historyVars

\* The slow query rejects.
SlowReject(i, e) ==
    /\ pc[i] = "awaitSlow"
    /\ Catch(i, e)
    /\ Settle(i)
    /\ UNCHANGED << artifactsCurrentQuery, queryVars, query, issued >>
    /\ UNCHANGED historyVars

LoaderInit ==
    /\ store = INITIAL_STATE
    /\ artifactsCurrentQuery = CurrentQuery(2, 20)
    /\ pc = [i \in Invocations |-> "idle"]
    /\ queryVars = [i \in Invocations |-> Undefined]
    /\ query = [i \in Invocations |-> Undefined]
    /\ artList = [i \in Invocations |-> Undefined]
    /\ errorText = [i \in Invocations |-> Undefined]
    /\ error = [i \in Invocations |-> Undefined]
    /\ inflight = {}
    /\ issued = [i \in Invocations |-> <<>>]

HistoryIdle ==
    /\ props = EmptyObject
    /\ hpc = "unmounted"
    /\ lines = <<>>
    /\ log = <<>>
    /\ items = <<>>

Init == LoaderInit /\ HistoryIdle

Next ==
    \E i \in Invocations :
        \/ Start(i)
        \/ \E response \in Responses : FastResolve(i, response)
        \/ \E e \in Failures : FastReject(i, e)
        \/ \E response \in Responses : SlowResolve(i, response)
        \/ \E e \in Failures : SlowReject(i, e)

\* The loader, its invocations free to overlap.
Spec == Init /\ [][Next]_vars

\* The query invocation i awaits resolves or fails.
Answer(i) ==
    \/ \E response \in Responses : FastResolve(i, response)
    \/ \E e \in Failures : FastReject(i, e)
    \/ \E response \in Responses : SlowResolve(i, response)
    \/ \E e \in Failures : SlowReject(i, e)

\* The loader with a client that answers every query it was sent.
SpecAnswered == Spec /\ \A i \in Invocations : WF_vars(Answer(i))

\* A caller that issues its loads serially: a load starts only when every
\* earlier one has returned.
StartSerial(i) ==
    /\ \A j \in Invocations : pc[j] \in {"idle", "done"}
    /\ Start(i)

NextSerial ==
    \E i \in Invocations :
        \/ StartSerial(i)
        \/ \E response \in Responses : FastResolve(i, response)
        \/ \E e \in Failures : FastReject(i, e)
        \/ \E response \in Responses : SlowResolve(i, response)
        \/ \E e \in Failures : SlowReject(i, e)

SpecSerial == Init /\ [][NextSerial]_vars

(* ------------------------- the current query ------------------------- *)

\* The page sizes the view offers, none included.
PaginationSizes == {0, 10, 20}

\* The bundles the current-query slice may hold: page is 1-based.
CurrentQueries ==
    { CurrentQuery(page, size) : page \in 1..MaxPage, size \in PaginationSizes }

\* The view changes the current query, whatever the loader is doing.
SetQuery(q) ==
    /\ q # artifactsCurrentQuery
    /\ artifactsCurrentQuery' = q
    /\ UNCHANGED << store, pc, queryVars, query, artList, errorText, error,
                    inflight, issued >>
    /\ UNCHANGED historyVars

InitQuery ==
    /\ LoaderInit
    /\ HistoryIdle

\* One invocation of actLoad is followed through its stages.
StartFirst == Start(1)

NextQuery ==
    \/ \E q \in CurrentQueries : SetQuery(q)
    \/ StartFirst
    \/ \E response \in Responses : FastResolve(1, response)
    \/ \E e \in Failures : FastReject(1, e)
    \/ \E response \in Responses : SlowResolve(1, response)
    \/ \E e \in Failures : SlowReject(1, e)

\* One load, the current query changing under it.
SpecQuery == InitQuery /\ [][NextQuery]_vars

(* ----------------------------- HistoryList ---------------------------- *)

\* _.isNil(props.history): the history prop is optional.
isNil(p) == "history" \notin DOMAIN p

\* JavaScript truthiness of the values a tagging record holds.
Truthy(v) == v # Undefined /\ v # Num(0) /\ v # Str("")

\* Mutant: _.some in place of _.every.
some(collection) == \E k \in DOMAIN collection : Truthy(collection[k])

\* _.every(collection), the predicate defaulting to _.identity
every(collection) == \A k \in DOMAIN collection : Truthy(collection[k])

Timestamps == {100, 200}

\* The tagging records (KojiBuildTagging) of a build's tag_listing.
KojiBuildTaggings ==
    { [ active       |-> a,
        create_ts    |-> Num(c),
        tag_name     |-> Str("t1"),
        creator_id   |-> Num(1),
        creator_name |-> Str("a"),
        revoke_ts    |-> rt,
        revoker_id   |-> ri,
        revoker_name |-> rn ] :
        a \in BOOLEAN, c \in Timestamps,
        rt \in {Undefined, Num(200)},
        ri \in {Undefined, Num(0), Num(2)},
        rn \in {Undefined, Str("b")} }

Histories == UNION { [1..n -> KojiBuildTaggings] : n \in 0..MaxRecords }

HistoryListProps == {EmptyObject} \cup { [history |-> h] : h \in Histories }

\* Mutant: a tag that was revoked is not shown as active.
TaggedIntoUnlessRevoked(e) ==
    [ action      |-> "tagged into",
      active      |-> e.active
                      /\ ~every(<< e.revoke_ts, e.revoker_name, e.revoker_id >>),
      time        |-> e.create_ts,
      tag_name    |-> e.tag_name,
      person_id   |-> e.creator_id,
      person_name |-> e.creator_name ]

TaggedInto(e) ==
    [ action      |-> "tagged into",
      active      |-> e.active,
      time        |-> e.create_ts,
      tag_name    |-> e.tag_name,
      person_id   |-> e.creator_id,
      person_name |-> e.creator_name ]

\* Mutant: the 'untagged from' entry carries the record's active field.
UntaggedFromKeepsActive(e) ==
    [ action      |-> "untagged from",
      active      |-> e.active,
      time        |-> e.revoke_ts,
      tag_name    |-> e.tag_name,
      person_id   |-> e.revoker_id,
      person_name |-> e.revoker_name ]

UntaggedFrom(e) ==
    [ action      |-> "untagged from",
      active      |-> FALSE,
      time        |-> e.revoke_ts,
      tag_name    |-> e.tag_name,
      person_id   |-> e.revoker_id,
      person_name |-> e.revoker_name ]

\* What the callback of _.forEach pushes for one record.
Pushed(e) ==
    IF every(<< e.revoke_ts, e.revoker_name, e.revoker_id >>)
    THEN << TaggedInto(e), UntaggedFrom(e) >>
    ELSE << TaggedInto(e) >>

RECURSIVE forEach(_)
forEach(h) == IF h = <<>> THEN <<>> ELSE Pushed(Head(h)) \o forEach(Tail(h))

\* The ascending comparison of _.orderBy: undefined sorts after any number.
Greater(a, b) ==
    IF a = Undefined THEN b # Undefined
    ELSE IF b = Undefined THEN FALSE
    ELSE a.num > b.num

\* x put into an ascending list behind every entry that is not greater.
Insert(sorted, x) ==
    LET k == Cardinality({ j \in DOMAIN sorted :
                             ~Greater(sorted[j].time, x.time) })
    IN  SubSeq(sorted, 1, k) \o << x >> \o SubSeq(sorted, k + 1, Len(sorted))

\* Mutant: the lines are rendered in the order they were pushed.
orderByNone(list) == list

\* _.orderBy(lines, ['time'], ['asc']), a stable sort
RECURSIVE orderBy(_)
orderBy(list) ==
    IF list = <<>> THEN <<>>
    ELSE Insert(orderBy(SubSeq(list, 1, Len(list) - 1)), list[Len(list)])

\* const flag of HistoryListEntry.
flag(active) == IF active THEN "[still active]" ELSE ""

\* The text parts HistoryListEntry renders after the local time and its
\* offset: action, tag_name, 'by' person_name, flag.
HistoryListEntry(entry) ==
    [ action      |-> entry.action,
      tag_name    |-> entry.tag_name,
      person_name |-> entry.person_name,
      flag        |-> flag(entry.active) ]

\* _.map(log, ...): one HistoryListEntry per entry, in the order of log.
map(l) == [ p \in DOMAIN l |-> HistoryListEntry(l[p]) ]

\* One render of HistoryList with the props it was given.
HistoryList ==
    /\ hpc = "props"
    /\ hpc' = "rendered"
    /\ IF isNil(props)
       THEN UNCHANGED << lines, log, items >>
       ELSE /\ lines' = forEach(props.history)
            /\ log' = orderBy(forEach(props.history))
            /\ items' = map(orderBy(forEach(props.history)))
    /\ UNCHANGED props
    /\ UNCHANGED loaderVars

HistoryInit ==
    /\ props \in HistoryListProps
    /\ hpc = "props"
    /\ lines = <<>>
    /\ log = <<>>
    /\ items = <<>>

InitHistory == LoaderInit /\ HistoryInit

NextHistory == HistoryList

\* HistoryList rendered once on every tagging history within the bounds.
SpecHistory == InitHistory /\ [][NextHistory]_vars

(* ------------------------- claims on the loader ----------------------- *)

\* Invocation i is the only one that has started.
Alone(i) == \A j \in Invocations \ {i} : pc[j] = "idle"

\* Some invocation that started after i is still awaiting a query.
LaterInFlight(i) ==
    \E j \in Invocations : j > i /\ pc[j] \in {"awaitFast", "awaitSlow"}

Pending(i) == { r \in inflight : r.invocation = i }

\* What a failure with this text leaves in the slice.
FailureState(text) ==
    [ error             |-> Str(text),
      artList           |-> <<>>,
      hits_info         |-> HitsInfo(0),
      isLoading         |-> FALSE,
      totalHits         |-> 0,
      isLoadingExtended |-> FALSE ]

EmptyZero == [ hits |-> <<>>, hits_info |-> HitsInfo(0) ]

\* results, totalCount and error of the slice are those of payload p.
Shows(p) ==
    /\ store.artList = p.hits
    /\ store.totalHits = GetTotalValue(p)
    /\ store.error = Undefined

\* C1: when the fast query of an invocation resolves with no hits and a
\* total of 0, the invocation ends there having issued the fast query only,
\* it never issues a query afterwards, and (the invocation being the only
\* one) the slice then has no results, totalHits 0, no error and both
\* loading flags false.
C1_EmptyFastStops ==
    [][ \A i \in Invocations :
          /\ (pc[i] = "awaitFast" /\ artList'[i] = EmptyZero) =>
                /\ pc'[i] = "done"
                /\ issued'[i] = << ArtifactsSearchFastQuery1 >>
                /\ { r \in inflight' : r.invocation = i } = {}
                /\ Alone(i) =>
                     /\ store'.artList = <<>>
                     /\ store'.totalHits = 0
                     /\ store'.error = Undefined
                     /\ ~store'.isLoading
                     /\ ~store'.isLoadingExtended
          /\ pc[i] = "done" => (pc'[i] = "done" /\ issued'[i] = issued[i])
      ]_vars

C1_Witness ==
    /\ pc[1] = "done" /\ Alone(1)
    /\ artList[1] = EmptyZero
    /\ issued[1] = << ArtifactsSearchFastQuery1 >>
    /\ store.artList = <<>> /\ store.totalHits = 0
    /\ store.error = Undefined

\* C2: for an invocation that is the only one, while its slow query is in
\* flight the slice holds the (non-empty) fast-stage results and total with
\* isLoading false and isLoadingExtended true; once the slow query has
\* resolved the slice holds the slow-stage results and total, both flags
\* false and no error.
C2_TwoStagePublish ==
    \A i \in Invocations :
      Alone(i) =>
        /\ pc[i] = "awaitSlow" =>
             /\ artList[i].hits # <<>>
             /\ Shows(artList[i])
             /\ ~store.isLoading
             /\ store.isLoadingExtended
        /\ ( /\ pc[i] = "done"
             /\ query[i] = ArtifactsSearchSlowQuery2
             /\ errorText[i] = Undefined ) =>
             /\ Shows(artList[i])
             /\ ~store.isLoading
             /\ ~store.isLoadingExtended

C2_Witness ==
    /\ pc[1] = "done" /\ Alone(1)
    /\ issued[1] = << ArtifactsSearchFastQuery1, ArtifactsSearchSlowQuery2 >>
    /\ errorText[1] = Undefined
    /\ Len(store.artList) = MaxHits
    /\ store.totalHits = MaxTotal
    /\ ~store.isLoadingExtended

\* C3: an invocation whose fast query fails has issued the fast query only,
\* and (the invocation being the only one) leaves the slice with no results,
\* totalHits 0, the failure's text as error and both loading flags false.
C3_FastFailure ==
    \A i \in Invocations :
      ( /\ pc[i] = "done"
        /\ errorText[i] # Undefined
        /\ query[i] = ArtifactsSearchFastQuery1 ) =>
          /\ issued[i] = << ArtifactsSearchFastQuery1 >>
          /\ Pending(i) = {}
          /\ Alone(i) => store = FailureState(ErrorText(error[i]))

C3_Witness ==
    /\ pc[1] = "done" /\ Alone(1)
    /\ query[1] = ArtifactsSearchFastQuery1
    /\ error[1] = ErrorObj("Network error")
    /\ store.error = Str("Network error")
    /\ store.artList = <<>>

\* C4: an invocation whose slow query fails, after its fast query showed a
\* non-empty list, leaves (being the only one) the slice exactly as a fast
\* failure with the same text does: no results, totalHits 0, the error, both
\* flags false.
C4_SlowFailureDiscards ==
    \A i \in Invocations :
      ( /\ pc[i] = "done"
        /\ errorText[i] # Undefined
        /\ query[i] = ArtifactsSearchSlowQuery2
        /\ Alone(i) ) =>
          /\ store = FailureState(ErrorText(error[i]))
          /\ store.artList = <<>>
          /\ store.error = errorText[i]

C4_Witness ==
    /\ pc[1] = "done" /\ Alone(1)
    /\ issued[1] = << ArtifactsSearchFastQuery1, ArtifactsSearchSlowQuery2 >>
    /\ error[1] = Num(404)
    /\ store = FailureState("404")

\* C5: an invocation has at most one query in flight and issues at most
\* two, the fast one first; it issues the slow query only in the step in
\* which its fast query resolves with a non-empty hit list.
C5_Sequential ==
    /\ [] ( \A i \in Invocations :
              /\ Cardinality(Pending(i)) <= 1
              /\ Len(issued[i]) <= 2
              /\ \A k \in DOMAIN issued[i] :
                   issued[i][k] = IF k = 1 THEN ArtifactsSearchFastQuery1
                                           ELSE ArtifactsSearchSlowQuery2
              /\ \A r \in Pending(i) : r.query = issued[i][Len(issued[i])] )
    /\ [][ \A i \in Invocations :
             Len(issued'[i]) = 2 /\ Len(issued[i]) < 2 =>
               /\ pc[i] = "awaitFast"
               /\ Pending(i) =
                    { Request(i, ArtifactsSearchFastQuery1, queryVars[i]) }
               /\ errorText'[i] = Undefined
               /\ artList'[i].hits # <<>>
               /\ store'.artList = artList'[i].hits
         ]_vars

C5_Witness ==
    /\ pc[1] = "awaitSlow"
    /\ issued[1] = << ArtifactsSearchFastQuery1, ArtifactsSearchSlowQuery2 >>
    /\ Pending(1) =
         { Request(1, ArtifactsSearchSlowQuery2, queryVars[1]) }

\* C6: whatever the interleaving of the invocations, isLoading true implies
\* an empty artList and no error.
C6_LoadingMeansEmpty ==
    store.isLoading => (store.artList = <<>> /\ store.error = Undefined)

\* A second load started while the slice showed the first one's results.
C6_Witness ==
    /\ store.isLoading
    /\ pc[1] = "awaitSlow"
    /\ pc[2] = "awaitFast"
    /\ store.isLoadingExtended

\* C7: no guard protects the slice from a stale publish: when the slow
\* query of an invocation resolves while a later invocation is in flight,
\* the slice takes the earlier invocation's results all the same.
C7_StalePublishOverwrites ==
    [][ \A i \in Invocations :
          ( /\ pc[i] = "awaitSlow"
            /\ pc'[i] = "done"
            /\ errorText'[i] = Undefined
            /\ LaterInFlight(i) ) =>
              /\ store'.artList = artList'[i].hits
              /\ store'.totalHits = GetTotalValue(artList'[i])
              /\ ~store'.isLoadingExtended
      ]_vars

\* The second invocation has published its fast stage and awaits its slow
\* query; the slice shows the first invocation's slow-stage list instead.
C7_Witness ==
    /\ pc[1] = "done" /\ pc[2] = "awaitSlow"
    /\ query[1] = ArtifactsSearchSlowQuery2
    /\ errorText[1] = Undefined
    /\ store.artList = artList[1].hits
    /\ store.artList # artList[2].hits
    /\ store.totalHits # GetTotalValue(artList[2])
    /\ ~store.isLoadingExtended

\* C8: with loads issued serially at most one invocation is in flight, and
\* once the latest invocation has returned the slice shows what that
\* invocation published last: its last resolved query, or its failure.
C8_SerialShowsLatest ==
    /\ Cardinality({ i \in Invocations :
                       pc[i] \in {"awaitFast", "awaitSlow"} }) <= 1
    /\ \A i \in Invocations :
         ( /\ pc[i] = "done"
           /\ \A j \in Invocations : j > i => pc[j] = "idle" ) =>
             /\ ~store.isLoading
             /\ ~store.isLoadingExtended
             /\ IF errorText[i] = Undefined
                THEN Shows(artList[i])
                ELSE /\ store.artList = <<>>
                     /\ store.totalHits = 0
                     /\ store.error = Str(ErrorText(error[i]))

\* The second of two serial loads returned a list without hits_info after
\* the first had shown a total.
C8_Witness ==
    /\ pc[1] = "done" /\ pc[2] = "done"
    /\ errorText[1] = Undefined /\ errorText[2] = Undefined
    /\ GetTotalValue(artList[1]) = MaxTotal
    /\ artList[2].hits_info = Undefined
    /\ artList[2].hits # <<>>
    /\ store.totalHits = 0
    /\ store.artList = artList[2].hits

\* The text the claim expects for each failure of the model.
ExpectedText(e) ==
    IF "message" \in DOMAIN e THEN e.message
    ELSE IF e = Str("timeout") THEN "timeout"
    ELSE IF e = Num(404) THEN "404"
    ELSE ""

\* C12: in the step in which a query of an invocation fails, at either
\* stage, the slice takes the one error string: the message of an Error
\* instance, else the string form of the raw value; the rest of the slice
\* is the same empty state at both stages.
C12_ErrorShaping ==
    [][ \A i \in Invocations :
          ( /\ pc[i] \in {"awaitFast", "awaitSlow"}
            /\ errorText'[i] # Undefined ) =>
              /\ pc'[i] = "done"
              /\ errorText'[i] = Str(ExpectedText(error'[i]))
              /\ store' = FailureState(ExpectedText(error'[i]))
      ]_vars

\* A rejection with undefined leaves the error defined and empty.
C12_Witness ==
    /\ pc[1] = "done"
    /\ pc[2] = "done"
    /\ query[1] = ArtifactsSearchSlowQuery2
    /\ error[1] = ErrorObj("Network error")
    /\ error[2] = Undefined
    /\ errorText[2] = Str("")
    /\ store.error = Str("")

\* C13: whatever the interleaving of the invocations, a defined error
\* implies an empty artList, totalHits 0 and both loading flags false.
C13_ErrorMeansEmpty ==
    store.error # Undefined =>
      /\ store.artList = <<>>
      /\ store.totalHits = 0
      /\ ~store.isLoading
      /\ ~store.isLoadingExtended

\* Two invocations returned with an empty list, the first without an error
\* (its fast query had no hits), the second by failing while the first one's
\* empty result was shown: the slice holds the error.
C13_Witness ==
    /\ pc[1] = "done" /\ pc[2] = "done"
    /\ errorText[1] = Undefined
    /\ artList[1].hits = <<>>
    /\ errorText[2] # Undefined
    /\ store.error = errorText[2]
    /\ store.artList = <<>>

\* C14: the step that starts a load sets isLoading, empties artList and
\* clears error, and leaves totalHits and isLoadingExtended as they were.
C14_StartKeepsTotal ==
    [][ \A i \in Invocations :
          (pc[i] = "idle" /\ pc'[i] = "awaitFast") =>
            /\ store'.isLoading
            /\ store'.artList = <<>>
            /\ store'.error = Undefined
            /\ store'.totalHits = store.totalHits
            /\ store'.isLoadingExtended = store.isLoadingExtended
      ]_vars

\* A second load started after the first one returned with a total: the
\* list is empty, the total is the first load's.
C14_Witness ==
    /\ pc[1] = "done" /\ pc[2] = "awaitFast"
    /\ store.isLoading
    /\ store.artList = <<>>
    /\ store.totalHits = MaxTotal
    /\ store.hits_info = EmptyObject

Running(i) == pc[i] \in {"awaitFast", "awaitSlow"}

\* C17: when every issued query is answered, every started invocation
\* ends; the step that ends it is a publish that leaves both loading flags
\* false, and it changes nothing afterwards; so whenever every started
\* invocation has ended, both flags are false.
C17_Terminates ==
    /\ \A i \in Invocations : Running(i) ~> (pc[i] = "done")
    /\ [][ \A i \in Invocations :
             /\ (pc[i] # "done" /\ pc'[i] = "done") =>
                  /\ \E payload \in
                        { responseToState(response) :
                            response \in { x \in Responses : HasArtifacts(x) } }
                        \cup { ErrorPayload(ErrorText(e)) :
                                 e \in Failures \cup {TypeErrorNoData} } :
                       store' = actArtList(store, payload)
                  /\ ~store'.isLoading
                  /\ ~store'.isLoadingExtended
             /\ pc[i] = "done" => pc'[i] = "done"
         ]_vars
    /\ [] ( ( /\ \E i \in Invocations : pc[i] = "done"
              /\ \A i \in Invocations : ~Running(i) )
            => (~store.isLoading /\ ~store.isLoadingExtended) )

\* Both invocations have ended, the first after its slow query and the
\* second in the catch block.
C17_Witness ==
    /\ \A i \in Invocations : pc[i] = "done"
    /\ Len(issued[1]) = 2
    /\ errorText[2] # Undefined
    /\ ~store.isLoading
    /\ ~store.isLoadingExtended

RequestsOf(i, doc, requests) ==
    { r \in requests : r.invocation = i /\ r.query = doc }

\* C15: the variables of a query are those of the current query in the
\* step that starts the invocation, and the slow query is issued with
\* exactly the variables of the fast query that has just resolved, whatever
\* the current query has become meanwhile.
C15_SameVariables ==
    [][ \A i \in Invocations :
          /\ (pc[i] = "idle" /\ pc'[i] = "awaitFast") =>
               RequestsOf(i, ArtifactsSearchFastQuery1, inflight')
                 = { Request(i, ArtifactsSearchFastQuery1,
                             QueryVars(artifactsCurrentQuery)) }
          /\ (pc[i] = "awaitFast" /\ pc'[i] = "awaitSlow") =>
               /\ Cardinality(RequestsOf(i, ArtifactsSearchFastQuery1,
                                         inflight)) = 1
               /\ Cardinality(RequestsOf(i, ArtifactsSearchSlowQuery2,
                                         inflight')) = 1
               /\ \A f \in RequestsOf(i, ArtifactsSearchFastQuery1, inflight),
                     g \in RequestsOf(i, ArtifactsSearchSlowQuery2, inflight') :
                    g.variables = f.variables
      ]_vars

\* The slow query is in flight with the variables of page 2, size 20,
\* while the current query is page 1, size 10.
C15_Witness ==
    /\ pc[1] = "awaitSlow"
    /\ artifactsCurrentQuery = CurrentQuery(1, 10)
    /\ inflight =
         { Request(1, ArtifactsSearchSlowQuery2,
                   QueryVars(CurrentQuery(2, 20))) }

\* C16: the offset every query is sent with is (page - 1) * paginationSize
\* of the current query at the start of the invocation, unvalidated and
\* unclamped, and is not negative for any page >= 1 and any size >= 0.
C16_OffsetNotNegative ==
    /\ [] ( \A r \in inflight : r.variables.paginationFrom >= 0 )
    /\ [][ \A i \in Invocations :
             (pc[i] = "idle" /\ pc'[i] = "awaitFast") =>
               \A r \in inflight' :
                 r.invocation = i =>
                   /\ r.variables.paginationFrom =
                        (artifactsCurrentQuery.page - 1)
                          * artifactsCurrentQuery.paginationSize
                   /\ r.variables.paginationSize =
                        artifactsCurrentQuery.paginationSize
         ]_vars

\* Page 1 of size 20: the offset is 0, the least one.
C16_Witness ==
    /\ pc[1] = "awaitFast"
    /\ \E r \in inflight :
         /\ r.variables.paginationFrom = 0
         /\ r.variables.paginationSize = 20

(* ------------------------ claims on HistoryList ----------------------- *)

Rendered == hpc = "rendered" /\ "history" \in DOMAIN props

\* A revoke field is present when it is not undefined.
Present(v) == v # Undefined

AllPresent(e) ==
    Present(e.revoke_ts) /\ Present(e.revoker_id) /\ Present(e.revoker_name)

\* The entries of one record are pushed together, the 'tagged into' entry
\* first: the k-th record's entries run from the k-th 'tagged into' entry
\* of lines up to the next one.
TaggedPositions == { p \in DOMAIN lines : lines[p].action = "tagged into" }

ChunkStart(k) ==
    CHOOSE p \in TaggedPositions :
        Cardinality({ q \in TaggedPositions : q <= p }) = k

ChunkEnd(k) ==
    IF k = Cardinality(TaggedPositions) THEN Len(lines)
    ELSE ChunkStart(k + 1) - 1

EntriesOfRecord(k) == SubSeq(lines, ChunkStart(k), ChunkEnd(k))

\* C9: every record yields exactly one 'tagged into' entry, and one more
\* entry, 'untagged from', if and only if revoke_ts, revoker_id and
\* revoker_name are all present (not undefined), a present 0 or ''
\* included.
C9_UntaggedIffAllPresent ==
    Rendered =>
      /\ Cardinality(TaggedPositions) = Len(props.history)
      /\ \A k \in DOMAIN props.history :
           /\ Len(EntriesOfRecord(k)) =
                IF AllPresent(props.history[k]) THEN 2 ELSE 1
           /\ \A p \in 2..Len(EntriesOfRecord(k)) :
                EntriesOfRecord(k)[p].action = "untagged from"

\* C10: a record with one of the three revoke fields absent yields exactly
\* one entry, 'tagged into' at its create_ts, and the timeline holds no more
\* 'untagged from' entries than there are records with all three present.
C10_PartialRevokeDropped ==
    Rendered =>
      /\ Cardinality(TaggedPositions) = Len(props.history)
      /\ \A k \in DOMAIN props.history :
           ~AllPresent(props.history[k]) =>
             /\ Len(EntriesOfRecord(k)) = 1
             /\ EntriesOfRecord(k)[1].action = "tagged into"
             /\ EntriesOfRecord(k)[1].time = props.history[k].create_ts
      /\ Len(log) = Len(lines)
      /\ Cardinality({ p \in DOMAIN log : log[p].action = "untagged from" })
           <= Cardinality({ k \in DOMAIN props.history : AllPresent(props.history[k]) })

\* A record revoked at 200 by revoker 2 whose revoker_name is absent.
C10_Witness ==
    /\ Rendered
    /\ Len(props.history) = 1
    /\ props.history[1].revoke_ts = Num(200)
    /\ props.history[1].revoker_id = Num(2)
    /\ props.history[1].revoker_name = Undefined
    /\ Len(log) = 1
    /\ log[1].action = "tagged into"
    /\ log[1].time = props.history[1].create_ts

\* C11: the timeline is a permutation of the entries pushed for all the
\* records (none lost, none duplicated) and ascends by time whatever the
\* order of the records; one record created at 100 and revoked at 200 by
\* revoker 2 'b' yields the tagged entry @100 followed by the untagged
\* entry @200.
C11_TimelineSortedPermutation ==
    Rendered =>
      /\ Len(log) = Len(lines)
      /\ \A p \in DOMAIN lines :
           Cardinality({ q \in DOMAIN log : log[q] = lines[p] })
             = Cardinality({ q \in DOMAIN lines : lines[q] = lines[p] })
      /\ \A p, q \in DOMAIN log :
           p < q => log[p].time.num <= log[q].time.num
      /\ ( /\ Len(props.history) = 1
           /\ props.history[1].create_ts = Num(100)
           /\ props.history[1].revoke_ts = Num(200)
           /\ props.history[1].revoker_id = Num(2)
           /\ props.history[1].revoker_name = Str("b") ) =>
             /\ Len(log) = 2
             /\ log[1].action = "tagged into" /\ log[1].time = Num(100)
             /\ log[1].person_name = Str("a")
             /\ log[2].action = "untagged from" /\ log[2].time = Num(200)
             /\ log[2].person_name = Str("b")

\* Two records given latest first, the later one revoked: three entries,
\* the pushed order is not the rendered order.
C11_Witness ==
    /\ Rendered
    /\ Len(props.history) = 2
    /\ props.history[1].create_ts = Num(200)
    /\ props.history[2].create_ts = Num(100)
    /\ Len(log) = 3
    /\ log # lines
    /\ log[1].time = Num(100)
    /\ log[2].time = Num(200) /\ log[3].time = Num(200)


Records == DOMAIN props.history

\* C18, as stated: an entry is active only if it is the 'tagged into' entry
\* of a record that yielded no 'untagged from' entry.
C18_ActiveOnlyIfNotRevoked ==
    Rendered =>
        /\ \A p \in DOMAIN log :
             log[p].active => log[p].action = "tagged into"
        /\ \A k \in Records :
             EntriesOfRecord(k)[1].active => Len(EntriesOfRecord(k)) = 1

\* C18, amended: an entry is active only if it is the 'tagged into' entry
\* of a record whose active field is true; the flag is the record's, also
\* when the record yielded an 'untagged from' entry.
C18_ActiveIsRecordsFlag ==
    Rendered =>
        /\ \A p \in DOMAIN log :
             log[p].active =>
               /\ log[p].action = "tagged into"
               /\ \E k \in Records :
                    /\ props.history[k].active
                    /\ EntriesOfRecord(k)[1] = log[p]
        /\ \A k \in Records :
             /\ EntriesOfRecord(k)[1].action = "tagged into"
             /\ EntriesOfRecord(k)[1].active = props.history[k].active
             /\ \A p \in 2..Len(EntriesOfRecord(k)) :
                  ~EntriesOfRecord(k)[p].active

\* One record, active and fully revoked: its 'tagged into' entry is active
\* and its 'untagged from' entry follows it in the timeline.
C18_Witness ==
    /\ Rendered
    /\ Len(props.history) = 1
    /\ props.history[1].active
    /\ AllPresent(props.history[1])
    /\ Len(log) = 2
    /\ log[1].action = "tagged into" /\ log[1].active
    /\ log[2].action = "untagged from" /\ ~log[2].active


\* C19: an item is rendered with the '[still active]' suffix only when its
\* entry has active true and the action 'tagged into'; every 'untagged
\* from' entry has active false and is rendered without the suffix,
\* whatever the active field of its record.
C19_SuffixOnlyOnActiveTagged ==
    Rendered =>
        /\ Len(items) = Len(log)
        /\ \A p \in DOMAIN items :
             /\ items[p].action = log[p].action
             /\ items[p].flag \in {"", "[still active]"}
             /\ items[p].flag = "[still active]" =>
                  (log[p].active /\ log[p].action = "tagged into")
             /\ log[p].action = "untagged from" =>
                  (~log[p].active /\ items[p].flag = "")

\* A record with active true and a full revoke: the item of its 'tagged
\* into' entry has the suffix, that of its 'untagged from' entry has not.
C19_Witness ==
    /\ Rendered
    /\ Len(props.history) = 1
    /\ props.history[1].active
    /\ Len(items) = 2
    /\ items[1].action = "tagged into"
    /\ items[1].flag = "[still active]"
    /\ items[2].action = "untagged from"
    /\ items[2].flag = ""


(* ------------------------ the two loading flags ----------------------- *)

Overlapping == Cardinality({ i \in Invocations : Running(i) }) >= 2

\* C20: isLoading and isLoadingExtended are both true only while two
\* invocations of actLoad overlap, so never when they do not; with
\* overlapping invocations the state is reached, the start of a load
\* leaving isLoadingExtended as the earlier load set it.
C20_BothFlagsOnlyWhenOverlapping ==
    (store.isLoading /\ store.isLoadingExtended) => Overlapping

\* The first load awaits its slow query when the second starts: the list
\* is cleared, isLoading is set and isLoadingExtended is still true.
C20_Witness ==
    /\ store.isLoading /\ store.isLoadingExtended
    /\ Overlapping
    /\ issued[1] = << ArtifactsSearchFastQuery1, ArtifactsSearchSlowQuery2 >>
    /\ issued[2] = << ArtifactsSearchFastQuery1 >>
    /\ store.artList = <<>>


====
